---- MODULE Spec2Model ----
(***************************************************************************)
(* A model of the chunk-based voxel world of threeJs-minecraft: the World  *)
(* registry and its streaming (world.js), the WorldChunk voxel grid and    *)
(* its generation passes (worldChunk.js), the block edits routed through   *)
(* the World, and the collision detection and resolution of Physics        *)
(* (blocks.js).                                                            *)
(***************************************************************************)
EXTENDS Integers, Sequences, FiniteSets, TLC

VARIABLES
  children,   \* World.children: the registry, an array of chunk objects (ids)
  heap,       \* the WorldChunk objects: userData, loaded, data, mesh counts
  idle,       \* callbacks queued by requestIdleCallback, oldest first
  last,       \* the operation that ran last, with its arguments and outcome
  params      \* World.params: seed and terrain offset and magnitude

vars == <<children, heap, idle, last, params>>

----------------------------------------------------------------------------
(* Configuration of the World object *)

\* World.drawDistance, configured to the value of the streaming scenario
DrawDistance == 1

\* World.chunkSize.width and .height, configured small
Width == 3
Height == 3

\* At most this many idle callbacks are pending at once
MaxPending == 9

\* The chunk objects alive at once: the registered ones and the pending evicted ones
MaxChunks == (2 * DrawDistance + 1) * (2 * DrawDistance + 1) + MaxPending

ChunkIds == 1..MaxChunks

\* blocks.*.id
EmptyId == 0
GrassId == 1
DirtId == 2
StoneId == 3
CoalOreId == 4
IronOreId == 5

BlockIds == {GrassId, DirtId, StoneId, CoalOreId, IronOreId}

\* instanceId: null
NoInstance == -1

\* The local coordinates of a chunk's voxel grid
Cells == (0..(Width - 1)) \X (0..(Height - 1)) \X (0..(Width - 1))

----------------------------------------------------------------------------
(* Small helpers *)

Range(s) == { s[i] : i \in 1..Len(s) }

RECURSIVE SeqFilter(_, _)
SeqFilter(s, keep) ==
  IF s = <<>> THEN <<>>
  ELSE IF Head(s) \in keep THEN <<Head(s)>> \o SeqFilter(Tail(s), keep)
       ELSE SeqFilter(Tail(s), keep)

\* The function f itself, held as a table of its values
Table(f) == f @@ <<>>

Max(a, b) == IF a >= b THEN a ELSE b
Min(a, b) == IF a <= b THEN a ELSE b

----------------------------------------------------------------------------
(* Inputs *)

\* World.params as the UI can set them: a tall terrain under two seeds
ParamChoices ==
  { [seed |-> 0, offset |-> 75, magnitude |-> 25],
    [seed |-> 1, offset |-> 75, magnitude |-> 25] }

\* The flat terrain of the deterministic scenario: magnitude 0, offset 0.5
FlatParams == [seed |-> 0, offset |-> 50, magnitude |-> 0]

AllParams == ParamChoices \cup {FlatParams}

\* Observer positions: in chunk (0,0), in chunk (1,0) and in chunk (5,5)
ObserverPositions ==
  { [x |-> 1, y |-> 2, z |-> 1],
    [x |-> Width, y |-> 2, z |-> Width - 1],
    [x |-> 5 * Width + 1, y |-> 2, z |-> 5 * Width + 2] }

\* The voxels the player edits: the one above the centre of chunk (0,0), and
\* one of chunk (-1,0) on the face it shares with chunk (0,0)
EditCoords == { <<1, 2, 1>>, <<-1, 1, 1>> }

\* player.activeBlockId when a block is placed
EditBlockIds == { StoneId }

----------------------------------------------------------------------------
(* The noise provider (three's SimplexNoise seeded by RNG(params.seed)) is  *)
(* an external collaborator: a deterministic scalar field of the seed and   *)
(* the sample point, with values in [-1, 1].  Values, offsets, magnitudes   *)
(* and scarcities are held in hundredths.                                   *)

\* simplex.noise(x, z) of generateTerrain, sampled at a world column
Noise2(s, wx, wz) == (((wx + 2 * wz + s) % 4) - 1) * 50

\* simplex.noise3d(x, y, z) of generateResources, sampled for resource `rid`
Noise3(s, rid, wx, wy, wz) == (((3 * wx + 5 * wy + 7 * wz + s + rid) % 9) - 4) * 25

\* resources of blocks.js, in declaration order, with their scarcity
resources ==
  << [id |-> StoneId,   scarcity |-> 50],
     [id |-> CoalOreId, scarcity |-> 50],
     [id |-> IronOreId, scarcity |-> 90] >>

----------------------------------------------------------------------------
(* WorldChunk: the voxel grid and its accessors.  A chunk's data is the     *)
(* empty function until initializeTerrain has run (data = []).              *)

NullBlock == [kind |-> "null"]
TypeError == [kind |-> "TypeError"]
Block(v) == [kind |-> "block", id |-> v.id, instanceId |-> v.instanceId]

\* inBounds with the upper limits included (x <= size.width)
inBounds_UpperInclusive(x, y, z) ==
  /\ x >= 0 /\ x <= Width
  /\ y >= 0 /\ y <= Height
  /\ z >= 0 /\ z <= Width

inBounds(x, y, z) ==
  /\ x >= 0 /\ x < Width
  /\ y >= 0 /\ y < Height
  /\ z >= 0 /\ z < Width

\* WorldChunk.getBlock on a grid: reading data[x][y][z] of an empty data
\* array raises a TypeError
ChunkGetBlock(data, x, y, z) ==
  IF inBounds(x, y, z)
  THEN IF <<x, y, z>> \in DOMAIN data THEN Block(data[<<x, y, z>>]) ELSE TypeError
  ELSE NullBlock

setBlockId(data, x, y, z, id) ==
  IF inBounds(x, y, z) THEN [data EXCEPT ![<<x, y, z>>].id = id] ELSE data

setBlockInstanceId(data, x, y, z, instanceId) ==
  IF inBounds(x, y, z)
  THEN [data EXCEPT ![<<x, y, z>>].instanceId = instanceId]
  ELSE data

\* getBlock(..)?.id with a missing neighbour counted as a solid block
IdOrEmpty_NullIsSolid(b) == IF b.kind = "block" THEN b.id ELSE StoneId

\* getBlock(..)?.id ?? blocks.empty.id
IdOrEmpty(b) == IF b.kind = "block" THEN b.id ELSE EmptyId

\* The six reads of isBlockObscured, in the order of the code
NeighbourReads(data, x, y, z) ==
  << ChunkGetBlock(data, x, y + 1, z), ChunkGetBlock(data, x, y - 1, z),
     ChunkGetBlock(data, x + 1, y, z), ChunkGetBlock(data, x - 1, y, z),
     ChunkGetBlock(data, x, y, z + 1), ChunkGetBlock(data, x, y, z - 1) >>

\* isBlockObscured raises a TypeError when one of its reads does
isBlockObscuredThrows(data, x, y, z) ==
  \E i \in 1..6 : NeighbourReads(data, x, y, z)[i].kind = "TypeError"

\* WorldChunk.isBlockObscured, when no read raises
isBlockObscured(data, x, y, z) ==
  LET reads == NeighbourReads(data, x, y, z) IN
  ~ (\E i \in 1..6 : IdOrEmpty(reads[i]) = EmptyId)

----------------------------------------------------------------------------
(* WorldChunk.generate and its four passes *)

initializeTerrain ==
  [c \in Cells |-> [id |-> EmptyId, instanceId |-> NoInstance]]

\* A resource sweep that writes only where the voxel is still empty
ResourcePass_KeepsEarlier(data, r, s, px, pz) ==
  [c \in Cells |->
     IF Noise3(s, r.id, px + c[1], c[2], pz + c[3]) > r.scarcity /\ data[c].id = EmptyId
     THEN [data[c] EXCEPT !.id = r.id]
     ELSE data[c]]

\* One resource type's sweep over the grid of the chunk at world offset (px, pz)
ResourcePass(data, r, s, px, pz) ==
  [c \in Cells |->
     IF Noise3(s, r.id, px + c[1], c[2], pz + c[3]) > r.scarcity
     THEN [data[c] EXCEPT !.id = r.id]
     ELSE data[c]]

RECURSIVE ResourceFold(_, _, _, _, _)
ResourceFold(data, rs, s, px, pz) ==
  IF rs = <<>> THEN data
  ELSE ResourceFold(ResourcePass(data, Head(rs), s, px, pz), Tail(rs), s, px, pz)

generateResources(data, s, px, pz) == ResourceFold(data, resources, s, px, pz)

\* height = clamp(floor(size.height * (offset + magnitude * value)), 0, size.height - 1)
TerrainHeight(h, offset, magnitude, value) ==
  Max(0, Min((h * (offset * 100 + magnitude * value)) \div 10000, h - 1))

\* generateTerrain writing dirt below the surface whatever the voxel holds
generateTerrain_OverwritesResources(data, p, px, pz) ==
  [c \in Cells |->
     LET height == TerrainHeight(Height, p.offset, p.magnitude,
                                 Noise2(p.seed, px + c[1], pz + c[3]))
         y == c[2]
     IN IF y < height THEN [data[c] EXCEPT !.id = DirtId]
        ELSE IF y = height THEN [data[c] EXCEPT !.id = GrassId]
        ELSE [data[c] EXCEPT !.id = EmptyId]]

generateTerrain(data, p, px, pz) ==
  [c \in Cells |->
     LET height == TerrainHeight(Height, p.offset, p.magnitude,
                                 Noise2(p.seed, px + c[1], pz + c[3]))
         y == c[2]
     IN IF y < height /\ data[c].id = EmptyId THEN [data[c] EXCEPT !.id = DirtId]
        ELSE IF y = height THEN [data[c] EXCEPT !.id = GrassId]
        ELSE IF y > height THEN [data[c] EXCEPT !.id = EmptyId]
        ELSE data[c]]

\* The walk of generateMeshes with z outermost, then y, then x
WalkCell_ZOutermost(i) ==
  << i % Width, (i \div Width) % Height, i \div (Height * Width) >>

\* The walk of generateMeshes: x outermost, then y, then z
WalkCell(i) ==
  << i \div (Height * Width), (i \div Width) % Height, i % Width >>

NoMeshes == [b \in BlockIds |-> 0]

RECURSIVE MeshWalk(_, _, _)
MeshWalk(data, count, i) ==
  IF i = Width * Height * Width THEN [data |-> data, count |-> count]
  ELSE LET c == WalkCell(i)
           blockId == data[c].id
       IN IF blockId = EmptyId THEN MeshWalk(data, count, i + 1)
          ELSE IF ~ isBlockObscured(data, c[1], c[2], c[3])
          THEN MeshWalk(Table(setBlockInstanceId(data, c[1], c[2], c[3], count[blockId])),
                        [count EXCEPT ![blockId] = @ + 1], i + 1)
          ELSE MeshWalk(data, count, i + 1)

generateMeshes(data) == MeshWalk(data, NoMeshes, 0)

\* A freshly constructed WorldChunk with userData {x, z}
NewChunk(x, z) ==
  [x |-> x, z |-> z, loaded |-> FALSE, data |-> <<>>, count |-> NoMeshes]

\* The four passes of WorldChunk.generate for the chunk with userData {x, z}
GeneratePasses(x, z, p) ==
  LET px == x * Width
      pz == z * Width
      d1 == initializeTerrain
      d2 == Table(generateResources(d1, p.seed, px, pz))
      d3 == Table(generateTerrain(d2, p, px, pz))
  IN generateMeshes(d3)

\* The chunk of an observer position, and the keys a registry can hold: the
\* squares around the origin and around the observers' chunks
ObserverChunks ==
  { <<pos.x \div Width, pos.z \div Width>> : pos \in ObserverPositions } \cup {<<0, 0>>}

ReachableKeys ==
  { <<c[1] + dx, c[2] + dz>> :
      c \in ObserverChunks, dx \in -DrawDistance..DrawDistance,
      dz \in -DrawDistance..DrawDistance }

\* Generation is a function of the chunk's position and the params alone:
\* its results, tabulated once
GeneratedTable ==
  Table([k \in ReachableKeys \X AllParams |->
           GeneratePasses(k[1][1], k[1][2], k[2])])

\* WorldChunk.generate without the final loaded = true
ChunkGenerate_LoadedNotSet(ch, p) ==
  LET m == GeneratedTable[<<ch.x, ch.z>>, p]
  IN [ch EXCEPT !.data = m.data, !.count = m.count]

\* WorldChunk.generate drawing from a generator that an earlier generation of
\* the same chunk has advanced, in place of a new RNG(params.seed)
ChunkGenerate_CarriesGeneratorOver(ch, p) ==
  LET q == IF ch.loaded /\ p \in ParamChoices THEN [p EXCEPT !.seed = 1 - @] ELSE p
      m == GeneratedTable[<<ch.x, ch.z>>, q]
  IN [ch EXCEPT !.data = m.data, !.count = m.count, !.loaded = TRUE]

\* WorldChunk.generate on the chunk object ch
ChunkGenerate(ch, p) ==
  LET m == GeneratedTable[<<ch.x, ch.z>>, p]
  IN [ch EXCEPT !.data = m.data, !.count = m.count, !.loaded = TRUE]

\* WorldChunk.disposeInstances: the meshes are released and detached
disposeInstances(ch) == [ch EXCEPT !.count = NoMeshes]

----------------------------------------------------------------------------
(* World: coordinate transform, registry lookups and streaming *)

\* World.asyncLoading
asyncLoading == TRUE

\* Division rounding toward zero (x / width | 0)
Truncated(a, b) == IF a >= 0 THEN a \div b ELSE -((-a) \div b)

\* worldToChunkCoords with truncation in place of Math.floor
worldToChunkCoords_Truncating(x, y, z) ==
  LET cx == Truncated(x, Width)
      cz == Truncated(z, Width)
  IN [chunk |-> [x |-> cx, z |-> cz],
      block |-> [x |-> x - Width * cx, y |-> y, z |-> z - Width * cz]]

worldToChunkCoords(x, y, z) ==
  LET cx == x \div Width
      cz == z \div Width
  IN [chunk |-> [x |-> cx, z |-> cz],
      block |-> [x |-> x - Width * cx, y |-> y, z |-> z - Width * cz]]

\* World.getChunk: the first registered chunk with the key, or 0 (undefined)
getChunk(chunkX, chunkZ) ==
  LET hits == { i \in 1..Len(children) :
                  heap[children[i]].x = chunkX /\ heap[children[i]].z = chunkZ }
  IN IF hits = {} THEN 0
     ELSE children[CHOOSE i \in hits : \A j \in hits : i <= j]

\* The keys {x, z} of a square of radius drawDistance, x outermost
RECURSIVE SquareKeys(_, _, _, _)
SquareKeys(chunkX, chunkZ, dx, dz) ==
  IF dx > DrawDistance THEN <<>>
  ELSE IF dz > DrawDistance THEN SquareKeys(chunkX, chunkZ, dx + 1, -DrawDistance)
  ELSE <<[x |-> chunkX + dx, z |-> chunkZ + dz]>>
         \o SquareKeys(chunkX, chunkZ, dx, dz + 1)

getVisivleChunks(player) ==
  LET coords == worldToChunkCoords(player.x, player.y, player.z)
  IN SquareKeys(coords.chunk.x, coords.chunk.z, -DrawDistance, -DrawDistance)

\* chunkExists with the z of the key compared to the chunk's x
chunkExists_ComparesZWithX(key) ==
  \E i \in 1..Len(children) :
     heap[children[i]].x = key.x /\ heap[children[i]].x = key.z

\* Whether a registered chunk has the key
chunkExists(key) ==
  \E i \in 1..Len(children) :
     heap[children[i]].x = key.x /\ heap[children[i]].z = key.z

\* visibleChunks.filter(chunk => !chunkExists)
RECURSIVE getChunksToAdd(_)
getChunksToAdd(visibleChunks) ==
  IF visibleChunks = <<>> THEN <<>>
  ELSE IF ~ chunkExists(Head(visibleChunks))
       THEN <<Head(visibleChunks)>> \o getChunksToAdd(Tail(visibleChunks))
       ELSE getChunksToAdd(Tail(visibleChunks))

\* removeUnusedChunks with the filter inverted: the chunks still visible go
chunksToRemove_Inverted(visibleChunks) ==
  { id \in Range(children) :
      \E i \in 1..Len(visibleChunks) :
         visibleChunks[i].x = heap[id].x /\ visibleChunks[i].z = heap[id].z }

\* The registered chunks removeUnusedChunks removes
chunksToRemove(visibleChunks) ==
  { id \in Range(children) :
      ~ \E i \in 1..Len(visibleChunks) :
           visibleChunks[i].x = heap[id].x /\ visibleChunks[i].z = heap[id].z }

\* The n smallest chunk ids outside `used`, in ascending order
RECURSIVE FreshIds(_, _)
FreshIds(used, n) ==
  IF n = 0 THEN <<>>
  ELSE LET id == CHOOSE i \in ChunkIds \ used :
                    \A j \in ChunkIds \ used : i <= j
       IN <<id>> \o FreshIds(used \cup {id}, n - 1)

\* The chunk objects something still refers to: the registry or a queued callback
Referenced(reg, queue) == Range(reg) \cup Range(queue)

----------------------------------------------------------------------------
(* Block edits on a chunk.  World calls chunk.addBlock, chunk.removeBlock,  *)
(* chunk.addBlockInstance and chunk.deleteBlockInstance; they act on the    *)
(* chunk record ch through the accessors above and do nothing on a chunk   *)
(* that holds no voxel data or on a coordinate outside its bounds.          *)

HasVoxel(ch, x, y, z) == inBounds(x, y, z) /\ <<x, y, z>> \in DOMAIN ch.data

\* addInstance(localCoord): a non-empty, unobscured voxel without a slot takes
\* the next slot of its block type
addBlockInstance(ch, x, y, z) ==
  IF /\ HasVoxel(ch, x, y, z)
     /\ ch.data[<<x, y, z>>].id # EmptyId
     /\ ch.data[<<x, y, z>>].instanceId = NoInstance
     /\ ~ isBlockObscured(ch.data, x, y, z)
  THEN LET id == ch.data[<<x, y, z>>].id
       IN [ch EXCEPT !.data = setBlockInstanceId(ch.data, x, y, z, ch.count[id]),
                     !.count[id] = @ + 1]
  ELSE ch

\* removeInstance(localCoord): the voxel gives up its slot, which the voxel
\* holding the last slot of that block type takes over
deleteBlockInstance(ch, x, y, z) ==
  IF /\ HasVoxel(ch, x, y, z)
     /\ ch.data[<<x, y, z>>].id # EmptyId
     /\ ch.data[<<x, y, z>>].instanceId # NoInstance
  THEN LET id == ch.data[<<x, y, z>>].id
           slot == ch.data[<<x, y, z>>].instanceId
           lastSlot == ch.count[id] - 1
       IN [ch EXCEPT
             !.data = [c \in DOMAIN ch.data |->
                         IF c = <<x, y, z>>
                         THEN [ch.data[c] EXCEPT !.instanceId = NoInstance]
                         ELSE IF ch.data[c].id = id /\ ch.data[c].instanceId = lastSlot
                         THEN [ch.data[c] EXCEPT !.instanceId = slot]
                         ELSE ch.data[c]],
             !.count[id] = lastSlot]
  ELSE ch

\* chunk.addBlock: an empty voxel takes the block id and an instance
ChunkAddBlock(ch, x, y, z, blockId) ==
  IF HasVoxel(ch, x, y, z) /\ ch.data[<<x, y, z>>].id = EmptyId
  THEN addBlockInstance([ch EXCEPT !.data = setBlockId(ch.data, x, y, z, blockId)],
                        x, y, z)
  ELSE ch

\* chunk.removeBlock: a non-empty voxel gives up its instance and becomes empty
ChunkRemoveBlock(ch, x, y, z) ==
  IF HasVoxel(ch, x, y, z) /\ ch.data[<<x, y, z>>].id # EmptyId
  THEN LET ch1 == deleteBlockInstance(ch, x, y, z)
       IN [ch1 EXCEPT !.data = setBlockId(ch1.data, x, y, z, EmptyId)]
  ELSE ch

----------------------------------------------------------------------------
(* World: block queries and edits.  An edit works on the heap h and yields  *)
(* the heap it leaves and whether it raised a TypeError.                    *)

\* World.getBlock without the test of chunk.loaded
WorldGetBlock_IgnoresLoaded(x, y, z) ==
  LET coords == worldToChunkCoords(x, y, z)
      chunk == getChunk(coords.chunk.x, coords.chunk.z)
  IN IF chunk # 0
     THEN ChunkGetBlock(heap[chunk].data, coords.block.x, coords.block.y, coords.block.z)
     ELSE NullBlock

\* World.getBlock
WorldGetBlock(x, y, z) ==
  LET coords == worldToChunkCoords(x, y, z)
      chunk == getChunk(coords.chunk.x, coords.chunk.z)
  IN IF chunk # 0 /\ heap[chunk].loaded
     THEN ChunkGetBlock(heap[chunk].data, coords.block.x, coords.block.y, coords.block.z)
     ELSE NullBlock

\* The six neighbours, in the order addBlock and removeBlock visit them
Neighbours(x, y, z) ==
  << <<x - 1, y, z>>, <<x + 1, y, z>>, <<x, y - 1, z>>,
     <<x, y + 1, z>>, <<x, y, z - 1>>, <<x, y, z + 1>> >>

\* World.revealBlock
revealBlock(h, x, y, z) ==
  LET coords == worldToChunkCoords(x, y, z)
      chunk == getChunk(coords.chunk.x, coords.chunk.z)
  IN IF chunk # 0
     THEN [heap |-> [h EXCEPT ![chunk] = addBlockInstance(
                        @, coords.block.x, coords.block.y, coords.block.z)],
           threw |-> FALSE]
     ELSE [heap |-> h, threw |-> FALSE]

\* World.hideBlock
hideBlock(h, x, y, z) ==
  LET coords == worldToChunkCoords(x, y, z)
      chunk == getChunk(coords.chunk.x, coords.chunk.z)
      bx == coords.block.x
      by == coords.block.y
      bz == coords.block.z
  IN IF chunk = 0 THEN [heap |-> h, threw |-> FALSE]
     ELSE IF isBlockObscuredThrows(h[chunk].data, bx, by, bz)
     THEN [heap |-> h, threw |-> TRUE]
     ELSE IF isBlockObscured(h[chunk].data, bx, by, bz)
     THEN [heap |-> [h EXCEPT ![chunk] = deleteBlockInstance(@, bx, by, bz)],
           threw |-> FALSE]
     ELSE [heap |-> h, threw |-> FALSE]

\* The calls on the six neighbours one after the other, up to the first that raises
RECURSIVE RevealAll(_, _)
RevealAll(h, ns) ==
  IF ns = <<>> THEN [heap |-> h, threw |-> FALSE]
  ELSE LET r == revealBlock(h, Head(ns)[1], Head(ns)[2], Head(ns)[3])
       IN IF r.threw THEN r ELSE RevealAll(r.heap, Tail(ns))

RECURSIVE HideAll(_, _)
HideAll(h, ns) ==
  IF ns = <<>> THEN [heap |-> h, threw |-> FALSE]
  ELSE LET r == hideBlock(h, Head(ns)[1], Head(ns)[2], Head(ns)[3])
       IN IF r.threw THEN r ELSE HideAll(r.heap, Tail(ns))

\* World.addBlock
addBlock(h, x, y, z, blockId) ==
  LET coords == worldToChunkCoords(x, y, z)
      chunk == getChunk(coords.chunk.x, coords.chunk.z)
  IN IF chunk # 0
     THEN RevealAll([h EXCEPT ![chunk] = ChunkAddBlock(
                       @, coords.block.x, coords.block.y, coords.block.z, blockId)],
                    Neighbours(x, y, z))
     ELSE [heap |-> h, threw |-> FALSE]

\* World.removeBlock without the test of chunk: the call on undefined raises
removeBlock_NoChunkGuard(h, x, y, z) ==
  LET coords == worldToChunkCoords(x, y, z)
      chunk == getChunk(coords.chunk.x, coords.chunk.z)
  IN IF chunk # 0
     THEN HideAll([h EXCEPT ![chunk] = ChunkRemoveBlock(
                     @, coords.block.x, coords.block.y, coords.block.z)],
                  Neighbours(x, y, z))
     ELSE [heap |-> h, threw |-> TRUE]

\* World.removeBlock
removeBlock(h, x, y, z) ==
  LET coords == worldToChunkCoords(x, y, z)
      chunk == getChunk(coords.chunk.x, coords.chunk.z)
  IN IF chunk # 0
     THEN HideAll([h EXCEPT ![chunk] = ChunkRemoveBlock(
                     @, coords.block.x, coords.block.y, coords.block.z)],
                  Neighbours(x, y, z))
     ELSE [heap |-> h, threw |-> FALSE]

----------------------------------------------------------------------------
(* Physics.  Positions and lengths are held in fortieths of a block, which  *)
(* hold the player's radius 0.5 (20), its height 1.75 (70), half of that    *)
(* height (35) and half a block (20) as whole numbers.                      *)

Scale == 40
PlayerRadius == 20
PlayerHeight == 70

\* Math.floor and Math.ceil of a length in fortieths
Floor(q) == q \div Scale
Ceil(q) == -((-q) \div Scale)

\* The extents with the position taken for the player's feet
extents_FromFeet(player) ==
  [x |-> [min |-> Floor(player.x - PlayerRadius), max |-> Ceil(player.x + PlayerRadius)],
   y |-> [min |-> Floor(player.y), max |-> Ceil(player.y + PlayerHeight)],
   z |-> [min |-> Floor(player.z - PlayerRadius), max |-> Ceil(player.z + PlayerRadius)]]

\* The extents reaching one block further down
extents_ReachingBelow(player) ==
  [x |-> [min |-> Floor(player.x - PlayerRadius), max |-> Ceil(player.x + PlayerRadius)],
   y |-> [min |-> Floor(player.y - PlayerHeight) - 1, max |-> Ceil(player.y)],
   z |-> [min |-> Floor(player.z - PlayerRadius), max |-> Ceil(player.z + PlayerRadius)]]

\* The extents of the player: position is the top of the cylinder
extents(player) ==
  [x |-> [min |-> Floor(player.x - PlayerRadius), max |-> Ceil(player.x + PlayerRadius)],
   y |-> [min |-> Floor(player.y - PlayerHeight), max |-> Ceil(player.y)],
   z |-> [min |-> Floor(player.z - PlayerRadius), max |-> Ceil(player.z + PlayerRadius)]]

\* The three nested loops of broadPhase from (x, y, z) on: x outermost
RECURSIVE BroadWalk(_, _, _, _)
BroadWalk(e, x, y, z) ==
  IF x > e.x.max THEN <<>>
  ELSE IF y > e.y.max THEN BroadWalk(e, x + 1, e.y.min, e.z.min)
  ELSE IF z > e.z.max THEN BroadWalk(e, x, y + 1, e.z.min)
  ELSE LET block == WorldGetBlock(x, y, z)
       IN (IF block.kind = "block" /\ block.id # EmptyId
           THEN << [x |-> x, y |-> y, z |-> z] >> ELSE <<>>)
          \o BroadWalk(e, x, y, z + 1)

\* Physics.broadPhase(player, world): the candidates in the order found
broadPhase(player) ==
  LET e == extents(player) IN BroadWalk(e, e.x.min, e.y.min, e.z.min)

\* Half the edge of a block (0.5), and half the player's height
HalfBlock == 20
HalfHeight == PlayerHeight \div 2

Abs(a) == IF a < 0 THEN -a ELSE a
Sign(a) == IF a > 0 THEN 1 ELSE IF a < 0 THEN -1 ELSE 0

\* Math.sqrt of a square number
Sqrt(n) == CHOOSE k \in 0..(2 * Scale) : k * k = n

\* The quotient n / d of a division that leaves no remainder
Exact(n, d) == CHOOSE q \in (-2 * Scale)..(2 * Scale) : q * d = n

\* The point of the block's cube closest to the player's axis at mid-height
closestPoint(block, p) ==
  [x |-> Max(block.x * Scale - HalfBlock, Min(p.x, block.x * Scale + HalfBlock)),
   y |-> Max(block.y * Scale - HalfBlock,
             Min(p.y - HalfHeight, block.y * Scale + HalfBlock)),
   z |-> Max(block.z * Scale - HalfBlock, Min(p.z, block.z * Scale + HalfBlock))]

\* The cylinder test with its surface counted as inside
pointInPlayerBoundingCylinder_Closed(p, player) ==
  LET dx == p.x - player.x
      dy == p.y - (player.y - HalfHeight)
      dz == p.z - player.z
      r_sq == dx * dx + dz * dz
  IN Abs(dy) <= HalfHeight /\ r_sq <= PlayerRadius * PlayerRadius

\* Physics.pointInPlayerBoundingCylinder
pointInPlayerBoundingCylinder(p, player) ==
  LET dx == p.x - player.x
      dy == p.y - (player.y - HalfHeight)
      dz == p.z - player.z
      r_sq == dx * dx + dz * dz
  IN Abs(dy) < HalfHeight /\ r_sq < PlayerRadius * PlayerRadius

\* Vector3.normalize of (x, 0, z): the components over den, the length, or
\* over 1 when the length is 0
normalize(x, z) ==
  LET length == Sqrt(x * x + z * z)
  IN [x |-> x, y |-> 0, z |-> z, den |-> IF length = 0 THEN 1 ELSE length]

\* The collision narrowPhase pushes for a block that passes the cylinder test
Collision(block, player) ==
  LET pt == closestPoint(block, player)
      dx == pt.x - player.x
      dy == pt.y - (player.y - HalfHeight)
      dz == pt.z - player.z
      overlapY == HalfHeight - Abs(dy)
      overlapXZ == PlayerRadius - Sqrt(dx * dx + dz * dz)
  IN IF overlapY < overlapXZ
     THEN [block |-> block, contactPoint |-> pt,
           normal |-> [x |-> 0, y |-> -Sign(dy), z |-> 0, den |-> 1],
           overlap |-> overlapY]
     ELSE [block |-> block, contactPoint |-> pt,
           normal |-> normalize(-dx, -dz),
           overlap |-> overlapXZ]

\* Physics.narrowPhase(candidates, player)
RECURSIVE narrowPhase(_, _)
narrowPhase(candidates, player) ==
  IF candidates = <<>> THEN <<>>
  ELSE (IF pointInPlayerBoundingCylinder(closestPoint(Head(candidates), player), player)
        THEN << Collision(Head(candidates), player) >> ELSE <<>>)
       \o narrowPhase(Tail(candidates), player)

\* collision.normal.clone().multiplyScalar(collision.overlap)
deltaPosition(collision) ==
  [x |-> Exact(collision.normal.x * collision.overlap, collision.normal.den),
   y |-> Exact(collision.normal.y * collision.overlap, collision.normal.den),
   z |-> Exact(collision.normal.z * collision.overlap, collision.normal.den)]

\* The loop with every collision tested again at the corrected position and
\* skipped when its contact point is no longer inside the cylinder
RECURSIVE ApplyCollisions_Retesting(_, _)
ApplyCollisions_Retesting(collisions, position) ==
  IF collisions = <<>> THEN position
  ELSE LET c == Head(collisions)
           d == deltaPosition(c)
       IN ApplyCollisions_Retesting(
            Tail(collisions),
            IF pointInPlayerBoundingCylinder(closestPoint(c.block, position), position)
            THEN [x |-> position.x + d.x, y |-> position.y + d.y, z |-> position.z + d.z]
            ELSE position)

\* The loop of resolveCollisions over the sorted collisions
RECURSIVE ApplyCollisions(_, _)
ApplyCollisions(collisions, position) ==
  IF collisions = <<>> THEN position
  ELSE LET d == deltaPosition(Head(collisions))
       IN ApplyCollisions(Tail(collisions),
                          [x |-> position.x + d.x, y |-> position.y + d.y,
                           z |-> position.z + d.z])

\* The arrangements of a sequence
Arrangements(s) ==
  { [i \in 1..Len(s) |-> s[f[i]]] :
      f \in { g \in [1..Len(s) -> 1..Len(s)] :
                \A i, j \in 1..Len(s) : i # j => g[i] # g[j] } }

\* collisions.sort((a, b) => a.overlap < b.overlap): the comparator returns
\* true or false, that is 1 or 0 and never a negative number.  It is a
\* consistent comparison only when all overlaps are equal, and the stable
\* sort then keeps the order; otherwise the order is implementation-defined
\* (V8 leaves the array as it is, other engines reorder it).
sortOutcomes(collisions) ==
  IF \A i, j \in 1..Len(collisions) : collisions[i].overlap = collisions[j].overlap
  THEN { collisions }
  ELSE Arrangements(collisions)

----------------------------------------------------------------------------
(* Operations *)

\* new World(): no chunk is registered and nothing is scheduled
Init ==
  /\ children = <<>>
  /\ heap = <<>>
  /\ idle = <<>>
  /\ last = [op |-> "new"]
  /\ params \in ParamChoices

\* The heap without the objects nothing refers to any more
Collect(h, reg, queue) ==
  [id \in DOMAIN h \cap Referenced(reg, queue) |-> h[id]]

\* removeUnusedChunks disposing the instances of every chunk of the heap
Disposed_Everything(h, ids) ==
  [id \in DOMAIN h |-> disposeInstances(h[id])]

\* The heap with disposeInstances run on the chunks `ids`
Disposed(h, ids) ==
  [id \in DOMAIN h |-> IF id \in ids THEN disposeInstances(h[id]) ELSE h[id]]

\* The heap extended with the chunk objects `chunks`, stored under `ids`
Allocated(h, ids, chunks) ==
  [id \in DOMAIN h \cup Range(ids) |->
     IF id \in DOMAIN h THEN h[id]
     ELSE chunks[CHOOSE i \in 1..Len(ids) : ids[i] = id]]

\* Object addresses carry no meaning: the objects are renamed by their place,
\* the registered ones in registry order, then the evicted ones in queue order
Renamed(h, reg, queue) ==
  LET order == reg \o SeqFilter(queue, Range(queue) \ Range(reg))
      place(id) == CHOOSE i \in 1..Len(order) : order[i] = id
  IN [heap |-> [i \in 1..Len(order) |-> h[order[i]]],
      children |-> [i \in 1..Len(reg) |-> i],
      idle |-> [i \in 1..Len(queue) |-> place(queue[i])]]

\* World.generate without the call of disposeChunks
Generate_WithoutDispose(p) ==
    LET keys == SquareKeys(0, 0, -DrawDistance, -DrawDistance)
        ids == FreshIds(DOMAIN heap, Len(keys))
        made == [i \in 1..Len(keys) |->
                   ChunkGenerate(NewChunk(keys[i].x, keys[i].z), p)]
        out == Renamed(Allocated(heap, ids, made), children \o ids, idle)
    IN /\ Len(children) + Len(keys) + Len(idle) <= MaxChunks
       /\ params' = p
       /\ children' = out.children
       /\ heap' = out.heap
       /\ idle' = out.idle
       /\ last' = [op |-> "generate"]

\* World.generate(); the UI calls it after changing World.params
Generate(p) ==
    LET heap1 == Collect(Disposed(heap, Range(children)), <<>>, idle)
        keys == SquareKeys(0, 0, -DrawDistance, -DrawDistance)
        ids == FreshIds(DOMAIN heap1, Len(keys))
        made == [i \in 1..Len(keys) |->
                   ChunkGenerate(NewChunk(keys[i].x, keys[i].z), p)]
        out == Renamed(Allocated(heap1, ids, made), ids, idle)
    IN /\ params' = p
       /\ children' = out.children
       /\ heap' = out.heap
       /\ idle' = out.idle
       /\ last' = [op |-> "generate"]

\* World.generateChunk for every key of chunkToAdd, on the registry `reg`
generateChunks(h, reg, queue, chunkToAdd) ==
  LET ids == FreshIds(DOMAIN h, Len(chunkToAdd))
      made == [i \in 1..Len(chunkToAdd) |->
                 IF asyncLoading
                 THEN NewChunk(chunkToAdd[i].x, chunkToAdd[i].z)
                 ELSE ChunkGenerate(NewChunk(chunkToAdd[i].x, chunkToAdd[i].z), params)]
  IN Renamed(Allocated(h, ids, made), reg \o ids,
             IF asyncLoading THEN queue \o ids ELSE queue)

\* World.update(player)
Update(player) ==
  LET visibleChunks == getVisivleChunks(player)
      chunkToAdd == getChunksToAdd(visibleChunks)
      removed == chunksToRemove(visibleChunks)
      reg1 == SeqFilter(children, Range(children) \ removed)
      heap1 == Collect(Disposed(heap, removed), reg1, idle)
      out == generateChunks(heap1, reg1, idle, chunkToAdd)
  IN /\ Len(idle) + Len(chunkToAdd) <= MaxPending
     /\ children' = out.children
     /\ heap' = out.heap
     /\ idle' = out.idle
     /\ last' = [op |-> "update", player |-> player,
                 added |-> Len(chunkToAdd), removed |-> Cardinality(removed)]
     /\ UNCHANGED params

\* The idle scheduler runs the oldest queued callback: chunk.generate()
IdleCallback ==
  /\ idle # <<>>
  /\ LET id == Head(idle)
         heap1 == [heap EXCEPT ![id] = ChunkGenerate(@, params)]
         out == Renamed(Collect(heap1, children, Tail(idle)), children, Tail(idle))
     IN /\ heap' = out.heap
        /\ idle' = out.idle
        /\ last' = [op |-> "idle", x |-> heap[id].x, z |-> heap[id].z,
                    registered |-> id \in Range(children)]
  /\ UNCHANGED <<children, params>>

\* The mouse handler of main.js: world.addBlock(selectedCoords, activeBlockId)
AddBlock(x, y, z, blockId) ==
  LET out == addBlock(heap, x, y, z, blockId)
  IN /\ heap' = out.heap
     /\ last' = [op |-> "addBlock", x |-> x, y |-> y, z |-> z, threw |-> out.threw]
     /\ UNCHANGED <<children, idle, params>>

\* The mouse handler of main.js: world.removeBlock(selectedCoords)
RemoveBlock(x, y, z) ==
  LET out == removeBlock(heap, x, y, z)
  IN /\ heap' = out.heap
     /\ last' = [op |-> "removeBlock", x |-> x, y |-> y, z |-> z, threw |-> out.threw]
     /\ UNCHANGED <<children, idle, params>>

Next ==
  \/ \E p \in ParamChoices : Generate(p)
  \/ \E player \in ObserverPositions : Update(player)
  \/ IdleCallback
  \/ \E c \in EditCoords, b \in EditBlockIds : AddBlock(c[1], c[2], c[3], b)
  \/ \E c \in EditCoords : RemoveBlock(c[1], c[2], c[3])

Spec == Init /\ [][Next]_vars

\* Streaming alone: block edits change no registry entry, loaded flag or queue
StreamNext ==
  \/ \E p \in ParamChoices : Generate(p)
  \/ \E player \in ObserverPositions : Update(player)
  \/ IdleCallback

\* The idle scheduler runs every queued callback (by its 1000 ms timeout at the latest)
FairSpec == Init /\ [][StreamNext]_vars /\ WF_vars(IdleCallback)

----------------------------------------------------------------------------
(* Vocabulary of the properties *)

KeyOf(id) == <<heap[id].x, heap[id].z>>

RegistryKeys == { KeyOf(id) : id \in Range(children) }

\* The chunk coordinate of an observer
ObserverChunk(player) == <<player.x \div Width, player.z \div Width>>

\* Every (cx, cz) within drawDistance of the centre on both axes
VisibleSet(centre) ==
  { k \in ((centre[1] - DrawDistance)..(centre[1] + DrawDistance))
            \X ((centre[2] - DrawDistance)..(centre[2] + DrawDistance)) : TRUE }

SquareSize == (2 * DrawDistance + 1) * (2 * DrawDistance + 1)

\* The registered chunk objects with a key
RegisteredAt(k) == { id \in Range(children) : KeyOf(id) = k }

\* The coordinates block queries are checked at: in and around the chunks
\* next to the origin and in chunk (5,5), from below the grid to above it
QueryXZ == { -Width - 1, -1, 0, Width - 1, Width, 2 * Width, 5 * Width + 1 }
QueryY == { -1, 0, Height - 1, Height }

\* The keys whose chunks are followed from registration to loading: one kept
\* and one evicted when the observer moves between chunks (0,0) and (1,0), one
\* added by that move, and the far chunk (5,5)
LiveKeys == { <<0, 0>>, <<-1, 0>>, <<2, 0>>, <<5, 5>> }

\* The chunk object owning world column (x, z), or 0
OwnerOf(x, z) == getChunk(x \div Width, z \div Width)

----------------------------------------------------------------------------
(* Properties of the registry and of streaming *)

\* C1: when World.update(observer) returns, the registered keys are exactly the
\* square of radius drawDistance around the observer's chunk, (2*drawDistance+1)^2
\* chunks; an update that moves the observer from the square of chunk (0,0) to
\* chunk (5,5) removes all 9 old chunks and adds 9 new ones.
C1_UpdateRegistersVisibleSquare ==
  [][\A player \in ObserverPositions :
       Update(player) =>
         /\ RegistryKeys' = VisibleSet(ObserverChunk(player))
         /\ Len(children') = SquareSize
         /\ (RegistryKeys = VisibleSet(<<0, 0>>) /\ ObserverChunk(player) = <<5, 5>>)
              => /\ RegistryKeys \cap RegistryKeys' = {}
                 /\ last'.removed = SquareSize
                 /\ last'.added = SquareSize]_vars

\* C1 witness: an update has moved the observer to chunk (5,5), replacing 9 chunks by 9
C1_Witness ==
  /\ last.op = "update"
  /\ ObserverChunk(last.player) = <<5, 5>>
  /\ last.removed = SquareSize
  /\ last.added = SquareSize

\* C2: the registry never holds two chunks with the same (cx, cz) key.
C2_OneChunkPerKey ==
  \A i, j \in 1..Len(children) :
     i # j => KeyOf(children[i]) # KeyOf(children[j])

\* C2 witness: an update has kept some chunks and added others beside them
C2_Witness ==
  /\ last.op = "update"
  /\ last.added \in 1..(SquareSize - 1)
  /\ Len(children) = SquareSize

\* C3: World.getBlock returns null whenever the chunk owning (x, z) is absent or
\* registered with loaded = false.
C3_GetBlockUnknownUnlessLoaded ==
  \A x \in QueryXZ, z \in QueryXZ, y \in QueryY :
     (OwnerOf(x, z) = 0 \/ ~ heap[OwnerOf(x, z)].loaded)
        => WorldGetBlock(x, y, z) = NullBlock

\* C3 witness: a chunk is registered and awaits its generation, beside a loaded
\* one that answers queries
C3_Witness ==
  /\ \E id \in Range(children) : ~ heap[id].loaded /\ id \in Range(idle)
  /\ \E x \in QueryXZ, z \in QueryXZ, y \in QueryY :
        WorldGetBlock(x, y, z).kind = "block"

\* C4 (as claimed): no generation pass runs on a chunk that has been evicted
\* from the registry.
C4_NoGenerationAfterEviction ==
  last.op = "idle" => last.registered

\* C5: a chunk added with deferred generation is registered at once with
\* loaded = false and stays unloaded while its generation is queued; while it
\* stays registered its generation eventually runs and it becomes loaded.
C5_DeferredChunkEventuallyLoads ==
  /\ [](\A id \in Range(children) : (~ heap[id].loaded) <=> id \in Range(idle))
  /\ [](last.op = "update" =>
          \A i \in (Len(children) - last.added + 1)..Len(children) :
             ~ heap[children[i]].loaded)
  /\ \A k \in LiveKeys :
        (\E id \in RegisteredAt(k) : ~ heap[id].loaded)
           ~> (\A id \in RegisteredAt(k) : heap[id].loaded)

\* C5 witness: the generation of a still registered chunk has run
C5_Witness ==
  /\ last.op = "idle"
  /\ last.registered
  /\ \E id \in RegisteredAt(<<last.x, last.z>>) : heap[id].loaded

----------------------------------------------------------------------------
(* Properties of block edits.  A voxel is named by its world coordinate w   *)
(* and looked up in the heap h through the registry.                        *)

LocalOf(w) == worldToChunkCoords(w[1], w[2], w[3]).block

\* The voxel record at w, when w lies in a registered chunk that holds data
HasVoxelAt(h, w) ==
  /\ OwnerOf(w[1], w[3]) # 0
  /\ HasVoxel(h[OwnerOf(w[1], w[3])], LocalOf(w).x, LocalOf(w).y, LocalOf(w).z)

VoxelAt(h, w) ==
  h[OwnerOf(w[1], w[3])].data[<<LocalOf(w).x, LocalOf(w).y, LocalOf(w).z>>]

SolidAt(h, w) == HasVoxelAt(h, w) /\ VoxelAt(h, w).id # EmptyId

HasSlotAt(h, w) == HasVoxelAt(h, w) /\ VoxelAt(h, w).instanceId # NoInstance

ObscuredAt(h, w) ==
  /\ SolidAt(h, w)
  /\ isBlockObscured(h[OwnerOf(w[1], w[3])].data,
                     LocalOf(w).x, LocalOf(w).y, LocalOf(w).z)

VisibleAt(h, w) == SolidAt(h, w) /\ ~ ObscuredAt(h, w)

\* The registered chunks with loaded = false among the owners of w and of its
\* six neighbours
UnloadedAround(w) ==
  { id \in { OwnerOf(v[1], v[3]) : v \in Range(Neighbours(w[1], w[2], w[3])) \cup {w} } :
      id # 0 /\ ~ heap[id].loaded }

\* C6 (as claimed): an edit whose target or neighbour lies in a registered
\* chunk with loaded = false raises no error and leaves that chunk unchanged.
C6_EditsTreatUnloadedAsAbsent ==
  [][\A c \in EditCoords, b \in EditBlockIds :
       ((AddBlock(c[1], c[2], c[3], b) \/ RemoveBlock(c[1], c[2], c[3]))
          /\ UnloadedAround(c) # {})
         => /\ ~ last'.threw
            /\ \A id \in UnloadedAround(c) : heap'[id] = heap[id]]_vars

\* C7 (as claimed): after addBlock on a registered chunk, a neighbour that was
\* visible before the call and is obscured after it holds no instance slot.
C7_AddBlockHidesObscuredNeighbours ==
  [][\A c \in EditCoords, b \in EditBlockIds :
       (AddBlock(c[1], c[2], c[3], b) /\ OwnerOf(c[1], c[3]) # 0)
         => \A n \in Range(Neighbours(c[1], c[2], c[3])) :
               (VisibleAt(heap, n) /\ ObscuredAt(heap', n)) => ~ HasSlotAt(heap', n)]_vars

\* C8 (as claimed): after removeBlock on a solid voxel the voxel is empty, and
\* every neighbour that was obscured before the call is exposed and holds an
\* instance slot.
C8_RemoveBlockRevealsNeighbours ==
  [][\A c \in EditCoords :
       (RemoveBlock(c[1], c[2], c[3]) /\ SolidAt(heap, c))
         => /\ ~ SolidAt(heap', c)
            /\ \A n \in Range(Neighbours(c[1], c[2], c[3])) :
                  ObscuredAt(heap, n) => (~ ObscuredAt(heap', n) /\ HasSlotAt(heap', n))]_vars

\* C9 (as claimed): every voxel of a registered chunk that holds an instance
\* slot is non-empty, belongs to a loaded chunk and is not obscured.
C9_SlotImpliesVisible ==
  \A id \in Range(children) :
     \A c \in DOMAIN heap[id].data :
        heap[id].data[c].instanceId # NoInstance
          => /\ heap[id].data[c].id # EmptyId
             /\ heap[id].loaded
             /\ ~ isBlockObscured(heap[id].data, c[1], c[2], c[3])

\* C10: addBlock and removeBlock on a coordinate whose owning chunk is not
\* registered raise no error and change neither the registry nor any chunk.
C10_EditOfAbsentChunkIsNoOp ==
  [][\A c \in EditCoords, b \in EditBlockIds :
       ((AddBlock(c[1], c[2], c[3], b) \/ RemoveBlock(c[1], c[2], c[3]))
          /\ OwnerOf(c[1], c[3]) = 0)
         => /\ heap' = heap
            /\ children' = children
            /\ ~ last'.threw]_vars

\* C10 witness: an edit has aimed at an unregistered chunk while a neighbour of
\* the target is a solid voxel, with a slot, of a registered loaded chunk
C10_Witness ==
  /\ last.op \in {"addBlock", "removeBlock"}
  /\ OwnerOf(last.x, last.z) = 0
  /\ \E n \in Range(Neighbours(last.x, last.y, last.z)) :
        HasSlotAt(heap, n) /\ heap[OwnerOf(n[1], n[3])].loaded

----------------------------------------------------------------------------
(* Further properties of streaming and of the full rebuild *)

\* The registered keys in registry order
RegistryKeySeq == [i \in 1..Len(children) |-> KeyOf(children[i])]

\* The chunk object registered under key k, and whether its generation is queued
ChunkAt(k) == heap[CHOOSE id \in RegisteredAt(k) : TRUE]
PendingAt(k) == \E id \in RegisteredAt(k) : id \in Range(idle)

\* C11: World.update adds exactly the visible keys that are not registered and
\* removes exactly the registered keys that are not visible; a chunk whose key
\* is registered and visible keeps its place among the kept chunks, its voxel
\* data, its loaded flag and its pending generation, and an update whose
\* visible square is already the registry changes nothing.
C11_UpdateAddsAndRemovesTheDifference ==
  [][\A player \in ObserverPositions :
       Update(player) =>
         LET visible == VisibleSet(ObserverChunk(player)) IN
         /\ RegistryKeys' \ RegistryKeys = visible \ RegistryKeys
         /\ RegistryKeys \ RegistryKeys' = RegistryKeys \ visible
         /\ last'.added = Cardinality(visible \ RegistryKeys)
         /\ last'.removed = Cardinality(RegistryKeys \ visible)
         /\ SubSeq(RegistryKeySeq', 1, Len(children) - last'.removed)
              = SeqFilter(RegistryKeySeq, visible)
         /\ \A k \in RegistryKeys \cap visible :
               /\ ChunkAt(k)' = ChunkAt(k)
               /\ PendingAt(k)' = PendingAt(k)
         /\ RegistryKeys = visible
              => /\ children' = children
                 /\ heap' = heap
                 /\ idle' = idle]_vars

\* C11 witness: an update has removed some chunks, added others, and kept both
\* a loaded chunk and a chunk whose generation is still queued
C11_Witness ==
  /\ last.op = "update"
  /\ last.added \in 1..(SquareSize - 1)
  /\ last.removed \in 1..(SquareSize - 1)
  /\ \E i, j \in 1..(Len(children) - last.added) :
        /\ heap[children[i]].loaded
        /\ children[j] \in Range(idle)

\* C12: World.generate(), called in any state, leaves the registry holding
\* exactly the (2*drawDistance+1)^2 chunks of the square around chunk (0,0),
\* each of them loaded and freshly generated from the current params: nothing
\* of the chunks registered before survives.
C12_GenerateRebuildsOriginSquare ==
  [][\A p \in ParamChoices :
       Generate(p) =>
         /\ RegistryKeys' = VisibleSet(<<0, 0>>)
         /\ Len(children') = SquareSize
         /\ \A i \in 1..Len(children') :
               /\ heap'[children'[i]].loaded
               /\ heap'[children'[i]] =
                    ChunkGenerate(NewChunk(heap'[children'[i]].x, heap'[children'[i]].z), p)]_vars

\* C12 witness: generate has run on a registry placed around chunk (5,5) whose
\* chunks were still awaiting their generation
C12_Witness ==
  /\ last.op = "generate"
  /\ \E id \in Range(idle) : heap[id].x >= 4 /\ id \notin Range(children)
  /\ \A id \in Range(children) : heap[id].loaded

----------------------------------------------------------------------------
(* One WorldChunk exercised through its own methods.  A new World holds a   *)
(* single chunk, added by generateChunk(x, z) and awaiting its generation;  *)
(* the methods of the chunk and the lookups of the World are then called    *)
(* with arguments inside and outside the chunk's bounds.                    *)

\* The keys of the chunk under test
UnitKeys == { <<0, 0>>, <<-1, 0>> }

\* World coordinates passed to worldToChunkCoords: two chunks and more on
\* either side of the origin
TransformX == (-(2 * Width + 1))..(2 * Width + 1)
TransformZ == { -(2 * Width + 1), -Width, -1, 0, Width - 1, Width + 1 }
TransformY == { -1, Height - 1 }

\* Local coordinates passed to the accessors: the grid and one step beyond it
ProbeX == -1..Width
ProbeY == -1..Height

\* Local coordinates passed to the writers: the centre voxel, the voxel above
\* it, and the coordinates one step outside the grid on some axis
WriteCoords ==
  ({-1, 1, Width} \X {-1, 1, Height} \X {-1, 1, Width}) \cup { <<1, Height - 1, 1>> }
WriteBlockIds == { EmptyId, StoneId }
WriteInstanceIds == { NoInstance, 7 }

\* The chunk under test
Unit == heap[1]

UnitInit ==
  /\ params \in AllParams
  /\ \E k \in UnitKeys : heap = << NewChunk(k[1], k[2]) >>
  /\ children = <<1>>
  /\ idle = <<1>>
  /\ last = [op |-> "generateChunk"]

\* The chunk has been generated and not written to since
Pristine == Unit = ChunkGenerate(NewChunk(Unit.x, Unit.z), params)

\* The calls that only read.  A read leaves the World and the chunk as they
\* are, so every outcome of a read shows when it is made once on each state
\* the other operations build; a read is not followed by another read.
ReadOps == { "worldToChunkCoords", "getBlock", "isBlockObscured", "broadPhase" }

AfterRead == last.op \in ReadOps

\* world.worldToChunkCoords(x, y, z)
CallWorldToChunkCoords(x, y, z) ==
  /\ ~ AfterRead
  /\ last' = [op |-> "worldToChunkCoords", x |-> x, y |-> y, z |-> z,
              out |-> worldToChunkCoords(x, y, z)]
  /\ UNCHANGED <<children, heap, idle, params>>

\* chunk.getBlock(x, y, z), and world.getBlock at the same voxel
CallGetBlock(x, y, z) ==
  /\ ~ AfterRead
  /\ last' = [op |-> "getBlock", x |-> x, y |-> y, z |-> z,
              chunk |-> ChunkGetBlock(Unit.data, x, y, z),
              world |-> WorldGetBlock(Unit.x * Width + x, y, Unit.z * Width + z)]
  /\ UNCHANGED <<children, heap, idle, params>>

\* chunk.setBlockId(x, y, z, id)
CallSetBlockId(x, y, z, id) ==
  /\ Pristine
  /\ heap' = [heap EXCEPT ![1].data = setBlockId(@, x, y, z, id)]
  /\ last' = [op |-> "setBlockId", x |-> x, y |-> y, z |-> z, before |-> Unit.data]
  /\ UNCHANGED <<children, idle, params>>

\* chunk.setBlockInstanceId(x, y, z, instanceId)
CallSetBlockInstanceId(x, y, z, instanceId) ==
  /\ Pristine
  /\ heap' = [heap EXCEPT ![1].data = setBlockInstanceId(@, x, y, z, instanceId)]
  /\ last' = [op |-> "setBlockInstanceId", x |-> x, y |-> y, z |-> z,
              before |-> Unit.data]
  /\ UNCHANGED <<children, idle, params>>

\* chunk.isBlockObscured(x, y, z) on a chunk that holds voxel data
CallIsBlockObscured(x, y, z) ==
  /\ ~ AfterRead
  /\ Unit.data # <<>>
  /\ last' = [op |-> "isBlockObscured", x |-> x, y |-> y, z |-> z,
              out |-> isBlockObscured(Unit.data, x, y, z)]
  /\ UNCHANGED <<children, heap, idle, params>>

\* chunk.generate() called again on the generated chunk
CallGenerate ==
  /\ Unit.loaded
  /\ heap' = [heap EXCEPT ![1] = ChunkGenerate(@, params)]
  /\ last' = [op |-> "generate", before |-> Unit.data]
  /\ UNCHANGED <<children, idle, params>>

\* Player positions around the chunk under test, in fortieths: on and off the
\* block grid, inside the chunk, above it and across its faces
PlayerPositions ==
  { [x |-> px, y |-> py, z |-> pz] :
      px \in { -140, -100, -10, 40, 60 }, py \in { 70, 100, 170 },
      pz \in { 20, 60, 120 } }

\* physics.broadPhase(player, world)
CallBroadPhase(player) ==
  /\ ~ AfterRead
  /\ last' = [op |-> "broadPhase", player |-> player, out |-> broadPhase(player)]
  /\ UNCHANGED <<children, heap, idle, params>>

UnitNext ==
  \/ IdleCallback
  \/ \E player \in PlayerPositions : CallBroadPhase(player)
  \/ CallGenerate
  \/ \E x \in ProbeX, y \in ProbeY, z \in ProbeX : CallIsBlockObscured(x, y, z)
  \/ \E x \in TransformX, y \in TransformY, z \in TransformZ :
        CallWorldToChunkCoords(x, y, z)
  \/ \E x \in ProbeX, y \in ProbeY, z \in ProbeX : CallGetBlock(x, y, z)
  \/ \E c \in WriteCoords, id \in WriteBlockIds : CallSetBlockId(c[1], c[2], c[3], id)
  \/ \E c \in WriteCoords, i \in WriteInstanceIds :
        CallSetBlockInstanceId(c[1], c[2], c[3], i)

UnitSpec == UnitInit /\ [][UnitNext]_vars

\* C13: for every integer world coordinate, negative x and z included,
\* worldToChunkCoords returns the chunk (floor(x/width), floor(z/width)) and the
\* local coordinate (x - width*cx, y, z - width*cz) with local x and z in
\* [0, width) and y unchanged; width*chunk + local is (x, z) again and
\* transforming that coordinate yields the same chunk.
C13_TransformIsFloorDivision ==
  last.op = "worldToChunkCoords" =>
    LET c == last.out.chunk
        b == last.out.block
    IN /\ Width * c.x <= last.x /\ last.x < Width * (c.x + 1)
       /\ Width * c.z <= last.z /\ last.z < Width * (c.z + 1)
       /\ b.x \in 0..(Width - 1) /\ b.z \in 0..(Width - 1)
       /\ b.y = last.y
       /\ Width * c.x + b.x = last.x
       /\ Width * c.z + b.z = last.z
       /\ worldToChunkCoords(Width * c.x + b.x, b.y, Width * c.z + b.z) = last.out

\* C13 witness: a coordinate with negative x and z that are no multiples of
\* the width has been transformed
C13_Witness ==
  /\ last.op = "worldToChunkCoords"
  /\ last.x < 0 /\ last.x % Width # 0
  /\ last.z < 0 /\ last.z % Width # 0

\* C14: with a local coordinate outside the grid WorldChunk.getBlock returns
\* null and setBlockId / setBlockInstanceId leave the whole grid unchanged;
\* World.getBlock returns null for every y outside [0, height), also in a
\* loaded chunk.
C14_OutOfBoundsIsUnknownAndInert ==
  /\ last.op = "getBlock" =>
        /\ ~ inBounds(last.x, last.y, last.z) => last.chunk = NullBlock
        /\ last.y \notin 0..(Height - 1) => last.world = NullBlock
  /\ (/\ last.op \in {"setBlockId", "setBlockInstanceId"}
      /\ ~ (/\ last.x \in 0..(Width - 1)
            /\ last.y \in 0..(Height - 1)
            /\ last.z \in 0..(Width - 1)))
       => Unit.data = last.before

\* C14 witness: a generated chunk holding blocks has been written to at a
\* coordinate outside its grid
C14_Witness ==
  /\ last.op \in {"setBlockId", "setBlockInstanceId"}
  /\ last.y = Height
  /\ Unit.loaded
  /\ \E c \in DOMAIN Unit.data : Unit.data[c].id # EmptyId

\* The six axis-adjacent coordinates of a local coordinate
Adjacent(x, y, z) ==
  { <<x + 1, y, z>>, <<x - 1, y, z>>, <<x, y + 1, z>>,
    <<x, y - 1, z>>, <<x, y, z + 1>>, <<x, y, z - 1>> }

\* A voxel on a face of the chunk volume
OnFace(x, y, z) ==
  /\ <<x, y, z>> \in Cells
  /\ x \in {0, Width - 1} \/ y \in {0, Height - 1} \/ z \in {0, Width - 1}

\* C15: WorldChunk.isBlockObscured(x, y, z) is true if and only if all six
\* axis-adjacent voxels lie inside the grid and are non-empty; a neighbour
\* outside the grid counts as empty, so a voxel on a face of the chunk is
\* never obscured.
C15_ObscuredIffSixSolidNeighboursInside ==
  last.op = "isBlockObscured" =>
    /\ last.out <=> \A n \in Adjacent(last.x, last.y, last.z) :
                       n \in Cells /\ Unit.data[n].id # EmptyId
    /\ OnFace(last.x, last.y, last.z) => ~ last.out

\* C15 witness: the test has answered true for a voxel
C15_Witness ==
  /\ last.op = "isBlockObscured"
  /\ last.out

\* C15 second case reached: a face voxel whose neighbours inside the grid are
\* all non-empty has been tested
C15_FaceCaseReached ==
  /\ last.op = "isBlockObscured"
  /\ OnFace(last.x, last.y, last.z)
  /\ \A n \in Adjacent(last.x, last.y, last.z) \cap Cells : Unit.data[n].id # EmptyId

\* The place of a voxel in the walk of the mesh pass (x, then y, then z)
WalkIndex(c) == (c[1] * Height + c[2]) * Width + c[3]

\* A voxel of the grid `data` that is non-empty and has an empty or missing
\* neighbour
VisibleIn(data, c) ==
  /\ data[c].id # EmptyId
  /\ \E n \in Adjacent(c[1], c[2], c[3]) : n \notin Cells \/ data[n].id = EmptyId

\* The visible voxels of the block type of c that the walk meets before c
VisibleBefore(data, c) ==
  { d \in Cells : /\ VisibleIn(data, d)
                  /\ data[d].id = data[c].id
                  /\ WalkIndex(d) < WalkIndex(c) }

\* C16: after WorldChunk.generate() a voxel holds an instance slot if and only
\* if it is non-empty and not obscured; the slot of a visible voxel is the
\* number of visible voxels of its block type that precede it in the walk, so
\* the slots of one block type are pairwise distinct and form 0..n-1, n being
\* the count of that type's mesh.
C16_SlotsNumberVisibleVoxels ==
  (last.op = "idle" /\ Unit.loaded) =>
    /\ \A c \in Cells :
          /\ Unit.data[c].instanceId # NoInstance <=> VisibleIn(Unit.data, c)
          /\ VisibleIn(Unit.data, c) =>
               Unit.data[c].instanceId = Cardinality(VisibleBefore(Unit.data, c))
    /\ \A b \in BlockIds :
          LET slots == { Unit.data[c].instanceId :
                           c \in { d \in Cells : /\ Unit.data[d].id = b
                                                /\ Unit.data[d].instanceId # NoInstance } }
          IN /\ slots = 0..(Unit.count[b] - 1)
             /\ \A c, d \in Cells :
                   (/\ c # d
                    /\ Unit.data[c].id = b /\ Unit.data[d].id = b
                    /\ Unit.data[c].instanceId # NoInstance
                    /\ Unit.data[d].instanceId # NoInstance)
                     => Unit.data[c].instanceId # Unit.data[d].instanceId

\* C16 witness: a chunk has been generated in which an obscured voxel got no
\* slot and two block types got several slots each
C16_Witness ==
  /\ last.op = "idle"
  /\ Unit.loaded
  /\ \E c \in Cells : Unit.data[c].id # EmptyId /\ Unit.data[c].instanceId = NoInstance
  /\ Cardinality({ b \in BlockIds : Unit.count[b] >= 2 }) >= 2

\* The grid of the chunk with userData {x, z} as the resource pass leaves it
ResourceGrid(x, z, p) ==
  Table(generateResources(initializeTerrain, p.seed, x * Width, z * Width))

\* The values simplex.noise can return, in hundredths
NoiseValues == -100..100

\* floor(h * (offset + magnitude * value)), clamped to [0, h - 1]: the integer
\* f with f <= h * (offset + magnitude * value) < f + 1, then the clamp
ColumnHeight(h, p, value) ==
  LET raw == h * (p.offset * 100 + p.magnitude * value)
      f == CHOOSE k \in -(2 * h)..(2 * h) : 10000 * k <= raw /\ raw < 10000 * (k + 1)
  IN IF f < 0 THEN 0 ELSE IF f > h - 1 THEN h - 1 ELSE f

\* C17: after generation every column (x, z) has, with height the clamped
\* floor of chunkHeight * (offset + magnitude * noise): below the height dirt
\* where the resource pass left the voxel empty and the resource id elsewhere,
\* grass at the height, and nothing above it; with chunkHeight 4, magnitude 0
\* and offset 0.5 the height is 2 for every noise value.
C17_TerrainColumns ==
  /\ (last.op = "idle" /\ Unit.loaded) =>
       \A c \in Cells :
          LET height == ColumnHeight(Height, params,
                                     Noise2(params.seed, Unit.x * Width + c[1],
                                            Unit.z * Width + c[3]))
              res == ResourceGrid(Unit.x, Unit.z, params)[c].id
              id == Unit.data[c].id
          IN /\ c[2] < height => id = (IF res = EmptyId THEN DirtId ELSE res)
             /\ c[2] = height => id = GrassId
             /\ c[2] > height => id = EmptyId
  /\ \A v \in NoiseValues :
        TerrainHeight(4, FlatParams.offset, FlatParams.magnitude, v) = 2

\* C17 witness: a chunk has been generated that holds, below the surface, a
\* voxel kept from the resource pass and a voxel turned to dirt, and above the
\* surface a voxel the resource pass had filled
C17_Witness ==
  /\ last.op = "idle"
  /\ Unit.loaded
  /\ \E c, d, e \in Cells :
        /\ Unit.data[c].id \in {StoneId, CoalOreId, IronOreId}
        /\ Unit.data[d].id = DirtId
        /\ Unit.data[e].id = EmptyId
        /\ ResourceGrid(Unit.x, Unit.z, params)[e].id # EmptyId

\* The resource types whose noise sample at the voxel c of the chunk under
\* test exceeds the type's scarcity (stone 0.5, coalOre 0.5, ironOre 0.9)
Exceeding(c) ==
  { r \in { <<1, StoneId, 50>>, <<2, CoalOreId, 50>>, <<3, IronOreId, 90>> } :
      Noise3(params.seed, r[2], Unit.x * Width + c[1], c[2], Unit.z * Width + c[3]) > r[3] }

\* C18: after the resource pass a voxel where the sample of one or more
\* resource types exceeds the type's scarcity holds the id of the last such
\* type in the order stone, coalOre, ironOre; a voxel where no sample exceeds
\* its threshold is empty.
C18_LastResourceWins ==
  (last.op = "idle" /\ Unit.loaded) =>
    \A c \in Cells :
       LET id == ResourceGrid(Unit.x, Unit.z, params)[c].id
       IN IF Exceeding(c) = {} THEN id = EmptyId
          ELSE \E r \in Exceeding(c) :
                  /\ id = r[2]
                  /\ \A q \in Exceeding(c) : q[1] <= r[1]

\* C18 witness: the resource pass has met a voxel claimed by two resource
\* types, which lies below the surface and still holds the later type in the
\* generated chunk, and a voxel claimed by none
C18_Witness ==
  /\ last.op = "idle"
  /\ Unit.loaded
  /\ \E c, d \in Cells :
        /\ Cardinality(Exceeding(c)) >= 2
        /\ Unit.data[c].id \in {CoalOreId, IronOreId}
        /\ Exceeding(d) = {}

\* A second chunk with the same userData and position, constructed anew and
\* generated with the same params
Twin == ChunkGenerate(NewChunk(Unit.x, Unit.z), params)

BoxCells(player) ==
  { c \in (-5..4) \X (-3..6) \X (-2..5) :
      /\ Scale * (c[1] + 1) > player.x - PlayerRadius
      /\ Scale * (c[1] - 1) < player.x + PlayerRadius
      /\ Scale * (c[2] + 1) > player.y - PlayerHeight
      /\ Scale * (c[2] - 1) < player.y
      /\ Scale * (c[3] + 1) > player.z - PlayerRadius
      /\ Scale * (c[3] - 1) < player.z + PlayerRadius }

\* The cell belongs to a registered, loaded chunk and holds a non-empty block
KnownSolid(c) ==
  /\ OwnerOf(c[1], c[3]) # 0
  /\ heap[OwnerOf(c[1], c[3])].loaded
  /\ c[2] \in 0..(Height - 1)
  /\ VoxelAt(heap, c).id # EmptyId

\* C20: Physics.broadPhase returns exactly the integer cells of the box
\* x in [floor(px-r), ceil(px+r)], y in [floor(py-h), ceil(py)],
\* z in [floor(pz-r), ceil(pz+r)] for which world.getBlock yields a known
\* non-empty block, each once; a cell of an absent or unloaded chunk, or an
\* empty one, is never a candidate.
C20_BroadPhaseCandidates ==
  last.op = "broadPhase" =>
    /\ { <<last.out[i].x, last.out[i].y, last.out[i].z>> : i \in 1..Len(last.out) }
         = { c \in BoxCells(last.player) : KnownSolid(c) }
    /\ \A i, j \in 1..Len(last.out) : i # j => last.out[i] # last.out[j]
    /\ ~ Unit.loaded => last.out = <<>>

\* C20 witness: the box of the player reaches across a face of the loaded
\* chunk and holds candidates, empty cells of the chunk and cells of absent
\* chunks
C20_Witness ==
  /\ last.op = "broadPhase"
  /\ Unit.loaded
  /\ last.out # <<>>
  /\ \E c \in BoxCells(last.player) :
        OwnerOf(c[1], c[3]) # 0 /\ c[2] \in 0..(Height - 1) /\ ~ KnownSolid(c)
  /\ \E c \in BoxCells(last.player) : OwnerOf(c[1], c[3]) = 0

----------------------------------------------------------------------------
(* Physics.update on a World of one chunk at (0,0) whose voxels are given:  *)
(* a single block, a floor, a wall beside a floor.  The player's position   *)
(* is the top of its bounding cylinder.                                     *)

\* The non-empty voxels of the worlds: none, the single centre block, a wall
\* block met before a floor block and after it, and a floor layer
PhysWorlds ==
  { {},
    { <<1, 1, 1>> },
    { <<0, 1, 1>>, <<1, 0, 1>> },
    { <<1, 0, 1>>, <<2, 1, 1>> },
    { c \in Cells : c[2] = 0 } }

\* A loaded chunk at (0,0) with stone at the voxels `solid`
SolidChunk(solid) ==
  LET grid == Table([c \in Cells |->
                       [id |-> IF c \in solid THEN StoneId ELSE EmptyId,
                        instanceId |-> NoInstance]])
      m == generateMeshes(grid)
  IN [NewChunk(0, 0) EXCEPT !.data = m.data, !.count = m.count, !.loaded = TRUE]

\* The player's axis: through the centre of block column (1,1), beside it,
\* at distance 0.5 of it, diagonally off its corner, and far away
PhysAxes ==
  { <<40, 40>>, <<30, 40>>, <<50, 40>>, <<70, 40>>, <<79, 40>>, <<80, 40>>,
    <<66, 68>>, <<72, 69>>, <<140, 160>> }

\* The player's mid-height: below, inside and above the blocks of layer 1
PhysMidHeights == { -15, -10, 10, 25, 40, 50, 55, 60, 70, 75, 80, 90, 95, 130 }

PhysPositions ==
  { [x |-> a[1], y |-> m + HalfHeight, z |-> a[2]] : a \in PhysAxes, m \in PhysMidHeights }

PhysInit ==
  /\ params = FlatParams
  /\ last = [op |-> "world"]
  /\ \/ \E solid \in PhysWorlds :
           /\ heap = << SolidChunk(solid) >>
           /\ children = <<1>>
           /\ idle = <<>>
     \/ /\ heap = << NewChunk(0, 0) >>
        /\ children = <<1>>
        /\ idle = <<1>>
     \/ /\ heap = <<>>
        /\ children = <<>>
        /\ idle = <<>>

\* physics.update(dt, player, world) with the player at `player`.  The call
\* leaves the world as it is, so one call per world and position shows all
\* there is to see.
PhysicsUpdate(player) ==
  LET candidates == broadPhase(player)
      collisions == narrowPhase(candidates, player)
  IN /\ last.op = "world"
     /\ \E sorted \in sortOutcomes(collisions) :
          last' = [op |-> "physics.update", player |-> player,
                   candidates |-> candidates, collisions |-> collisions,
                   sorted |-> sorted,
                   position |-> IF Len(collisions) > 0
                                THEN ApplyCollisions(sorted, player)
                                ELSE player]
     /\ UNCHANGED <<children, heap, idle, params>>

PhysNext == \E player \in PhysPositions : PhysicsUpdate(player)

PhysSpec == PhysInit /\ [][PhysNext]_vars

----------------------------------------------------------------------------
(* Claims about Physics *)

Clamp(v, lo, hi) == IF v < lo THEN lo ELSE IF v > hi THEN hi ELSE v

\* The point of the cube of `block` closest to the axis of the player at
\* mid-height: x and z clamped to the cube, the mid-height clamped to it
Closest(block, player) ==
  [x |-> Clamp(player.x, block.x * Scale - 20, block.x * Scale + 20),
   y |-> Clamp(player.y - 35, block.y * Scale - 20, block.y * Scale + 20),
   z |-> Clamp(player.z, block.z * Scale - 20, block.z * Scale + 20)]

VerticalOffset(block, player) == Closest(block, player).y - (player.y - 35)

HorizontalSq(block, player) ==
  (Closest(block, player).x - player.x) * (Closest(block, player).x - player.x)
    + (Closest(block, player).z - player.z) * (Closest(block, player).z - player.z)

StrictlyInside(block, player) ==
  /\ Abs(VerticalOffset(block, player)) < 35
  /\ HorizontalSq(block, player) < 400

OnSurface(block, player) ==
  \/ Abs(VerticalOffset(block, player)) = 35 /\ HorizontalSq(block, player) <= 400
  \/ Abs(VerticalOffset(block, player)) <= 35 /\ HorizontalSq(block, player) = 400

\* C21: Physics.narrowPhase emits a contact for a candidate cube if and only
\* if the point of the cube closest to the player's axis at mid-height lies
\* strictly inside the cylinder (|vertical offset| < h/2 and squared
\* horizontal distance < r^2), one contact per such candidate and in the
\* candidates' order; a closest point on the cylinder's surface is no contact.
C21_ContactIffStrictlyInside ==
  last.op = "physics.update" =>
    /\ [i \in 1..Len(last.collisions) |-> last.collisions[i].block]
         = SeqFilter(last.candidates,
                     { b \in Range(last.candidates) : StrictlyInside(b, last.player) })
    /\ \A i \in 1..Len(last.collisions) :
         last.collisions[i].contactPoint = Closest(last.collisions[i].block, last.player)
    /\ \A b \in Range(last.candidates) :
         OnSurface(b, last.player) =>
           \A i \in 1..Len(last.collisions) : last.collisions[i].block # b

\* C21 witness: of the candidates of one update, one has its closest point
\* on the side of the cylinder, or on its bottom disc, and is no contact,
\* and another is a contact
C21_Witness ==
  /\ last.op = "physics.update"
  /\ Len(last.collisions) > 0
  /\ \E b \in Range(last.candidates) :
       /\ OnSurface(b, last.player)
       /\ \A i \in 1..Len(last.collisions) : last.collisions[i].block # b

\* C21, the vertical case: a candidate whose closest point is on the end
\* disc of the cylinder is no contact
C21_EndDiscReached ==
  /\ last.op = "physics.update"
  /\ \E b \in Range(last.candidates) :
       /\ Abs(VerticalOffset(b, last.player)) = 35
       /\ HorizontalSq(b, last.player) < 400
       /\ \A i \in 1..Len(last.collisions) : last.collisions[i].block # b

\* The two overlaps of a block and a player whose closest point is strictly
\* inside the cylinder
VerticalOverlap(block, player) == 35 - Abs(VerticalOffset(block, player))

HorizontalOverlap(block, player) == 20 - Sqrt(HorizontalSq(block, player))

\* A normal of length 1: its components x/den, y/den, z/den
UnitLength(normal) ==
  normal.x * normal.x + normal.y * normal.y + normal.z * normal.z
    = normal.den * normal.den

\* C22: for every contact the overlap is min(h/2 - |vertical offset|,
\* r - horizontal distance); when the vertical overlap is the smaller one the
\* normal is (0, -sign(vertical offset), 0), otherwise it is the unit
\* horizontal vector from the contact point toward the player's axis; so
\* every contact has a normal of length 1 and a positive overlap.
C22_MinimumOverlapUnitNormal ==
  last.op = "physics.update" =>
    \A i \in 1..Len(last.collisions) :
      LET c == last.collisions[i]
          v == VerticalOffset(c.block, last.player)
          oy == VerticalOverlap(c.block, last.player)
          oxz == HorizontalOverlap(c.block, last.player)
      IN /\ c.overlap = Min(oy, oxz)
         /\ c.overlap > 0
         /\ oy < oxz => c.normal = [x |-> 0, y |-> -Sign(v), z |-> 0, den |-> 1]
         /\ ~ (oy < oxz) =>
              /\ c.normal.y = 0
              /\ c.normal.x * (last.player.x - c.contactPoint.x) >= 0
              /\ c.normal.z * (last.player.z - c.contactPoint.z) >= 0
         /\ UnitLength(c.normal)

\* C22, the part that holds: the overlap is the smaller of the two and is
\* positive, and the normal is of length 1 unless the player's axis passes
\* through the cube and the horizontal overlap is chosen, where it is 0
C22_OverlapAndNormalOffAxis ==
  last.op = "physics.update" =>
    \A i \in 1..Len(last.collisions) :
      LET c == last.collisions[i]
          oy == VerticalOverlap(c.block, last.player)
          oxz == HorizontalOverlap(c.block, last.player)
      IN /\ c.overlap = Min(oy, oxz)
         /\ c.overlap > 0
         /\ UnitLength(c.normal)
              <=> (oy < oxz \/ HorizontalSq(c.block, last.player) > 0)

\* C22: a contact with the horizontal overlap chosen and a diagonal normal
\* of length 1, and in another world a contact with the zero normal
C22_DiagonalNormalReached ==
  /\ last.op = "physics.update"
  /\ \E i \in 1..Len(last.collisions) :
       /\ last.collisions[i].normal.x # 0
       /\ last.collisions[i].normal.z # 0
       /\ UnitLength(last.collisions[i].normal)

C22_ZeroNormalReached ==
  /\ last.op = "physics.update"
  /\ \E i \in 1..Len(last.collisions) :
       /\ last.collisions[i].normal = [x |-> 0, y |-> 0, z |-> 0, den |-> 1]
       /\ last.collisions[i].overlap = 20

\* C23: Physics.resolveCollisions processes the contacts in ascending order
\* of overlap: whenever contact A is applied to the player's position before
\* contact B, A.overlap <= B.overlap.
C23_AscendingOverlap ==
  last.op = "physics.update" =>
    \A i, j \in 1..Len(last.sorted) :
      i < j => last.sorted[i].overlap <= last.sorted[j].overlap

\* C23: the narrow phase found the larger overlap first and the sort left
\* the contacts in that order, the outcome of an engine whose insertion sort
\* moves an element only on a negative comparison
C23_LargerFirstReached ==
  /\ last.op = "physics.update"
  /\ Len(last.collisions) = 2
  /\ last.collisions[1].overlap > last.collisions[2].overlap
  /\ last.sorted = last.collisions

\* The world holds one loaded chunk whose only non-empty voxel is (1,1,1),
\* and the player's axis passes through the centre of that voxel
IsolatedVoxelOnAxis ==
  /\ children = <<1>>
  /\ heap[1].loaded
  /\ { c \in Cells : heap[1].data[c].id # EmptyId } = { <<1, 1, 1>> }
  /\ last.op = "physics.update"
  /\ last.player.x = Scale
  /\ last.player.z = Scale

\* C24: for a player of radius 0.5 and height 1.75 whose axis passes through
\* the centre of a single isolated solid voxel and for which the narrow phase
\* reports a collision, one Physics.update yields exactly one candidate and
\* one contact and moves the player to a position at which the closest-point
\* test against that voxel no longer reports penetration, for every vertical
\* position of the player, also with its mid-height inside the voxel.
C24_OneUpdateResolves ==
  (IsolatedVoxelOnAxis /\ Len(last.collisions) > 0) =>
    /\ Len(last.candidates) = 1
    /\ Len(last.collisions) = 1
    /\ ~ StrictlyInside(last.collisions[1].block, last.position)

\* C24, the part that holds: one candidate and one contact; the update
\* resolves the penetration exactly when the vertical overlap is the smaller
\* one, and leaves the player where it was otherwise
C24_ResolvesOnlyVertically ==
  (IsolatedVoxelOnAxis /\ Len(last.collisions) > 0) =>
    /\ Len(last.candidates) = 1
    /\ Len(last.collisions) = 1
    /\ IF VerticalOverlap(last.collisions[1].block, last.player) < 20
       THEN ~ StrictlyInside(last.collisions[1].block, last.position)
       ELSE /\ last.position = last.player
            /\ StrictlyInside(last.collisions[1].block, last.position)

\* C24: the player stands on the voxel, sunk into it by less than its
\* radius, and is lifted out of it
C24_LiftedOutReached ==
  /\ IsolatedVoxelOnAxis
  /\ Len(last.collisions) = 1
  /\ last.position.y > last.player.y
  /\ ~ StrictlyInside(last.collisions[1].block, last.position)

\* C24: the player's mid-height lies inside the voxel and the update leaves
\* the player in it
C24_LeftInsideReached ==
  /\ IsolatedVoxelOnAxis
  /\ Len(last.collisions) = 1
  /\ last.player.y - 35 = Scale
  /\ last.position = last.player
  /\ StrictlyInside(last.collisions[1].block, last.position)

\* No cell of the player's broad-phase box is a known non-empty block
NothingInBox ==
  /\ last.op = "physics.update"
  /\ \A c \in BoxCells(last.player) : ~ KnownSolid(c)

\* C25: when no cell of the player's broad-phase box resolves to a known
\* non-empty block (the player far from all solid voxels, or the chunks
\* around it absent or unloaded), Physics.update finds no candidate and no
\* contact and leaves the player's position unchanged; and no Physics.update
\* changes the world's registry or voxels.
C25_NothingNearNothingMoves ==
  /\ [](NothingInBox =>
          /\ last.candidates = <<>>
          /\ last.collisions = <<>>
          /\ last.position = last.player)
  /\ [][last'.op = "physics.update" => UNCHANGED <<children, heap, idle, params>>]_vars

\* C25 witness: an update in a loaded chunk with solid voxels, the player
\* above them and out of their reach
C25_Witness ==
  /\ NothingInBox
  /\ children = <<1>>
  /\ heap[1].loaded
  /\ \E c \in Cells : heap[1].data[c].id # EmptyId
  /\ last.position = last.player

\* C25: the same with the chunk registered and not yet loaded, and with no
\* chunk at all
C25_UnloadedReached ==
  /\ NothingInBox
  /\ children = <<1>>
  /\ ~ heap[1].loaded

C25_AbsentReached ==
  /\ NothingInBox
  /\ children = <<>>

\* The translation normal * overlap of a contact
Translation(c) ==
  [x |-> (c.normal.x * c.overlap) \div c.normal.den,
   y |-> (c.normal.y * c.overlap) \div c.normal.den,
   z |-> (c.normal.z * c.overlap) \div c.normal.den]

\* The sum of the translations of the first n contacts of s
RECURSIVE TranslationSum(_, _)
TranslationSum(s, n) ==
  IF n = 0 THEN [x |-> 0, y |-> 0, z |-> 0]
  ELSE LET rest == TranslationSum(s, n - 1)
           t == Translation(s[n])
       IN [x |-> rest.x + t.x, y |-> rest.y + t.y, z |-> rest.z + t.z]

Moved(position, t) ==
  [x |-> position.x + t.x, y |-> position.y + t.y, z |-> position.z + t.z]

\* C26: Physics.resolveCollisions applies every contact's translation
\* normal * overlap as the narrow phase computed it from the player's
\* position before the resolution, each contact once and none tested again
\* at the corrected position: the final position is the initial position
\* plus the sum of all contact translations, whatever the order in which the
\* contacts are processed.
C26_FinalPositionIsSumOfTranslations ==
  last.op = "physics.update" =>
    /\ \A c \in Range(last.collisions) \cup Range(last.sorted) :
         Cardinality({ i \in 1..Len(last.sorted) : last.sorted[i] = c })
           = Cardinality({ i \in 1..Len(last.collisions) : last.collisions[i] = c })
    /\ last.collisions = narrowPhase(last.candidates, last.player)
    /\ last.position
         = Moved(last.player, TranslationSum(last.collisions, Len(last.collisions)))

\* C26 witness: two contacts processed in the other order than found, the
\* second of them no longer in contact at the position the first one led to,
\* and both applied
C26_Witness ==
  /\ last.op = "physics.update"
  /\ Len(last.sorted) = 2
  /\ last.sorted[1] = last.collisions[2]
  /\ last.sorted[1].overlap # last.sorted[2].overlap
  /\ ~ StrictlyInside(last.sorted[2].block,
                      Moved(last.player, Translation(last.sorted[1])))
  /\ Translation(last.sorted[2]) # [x |-> 0, y |-> 0, z |-> 0]
  /\ last.position = Moved(Moved(last.player, Translation(last.sorted[1])),
                           Translation(last.sorted[2]))

\* C26: four contacts at once
C26_FourContactsReached ==
  /\ last.op = "physics.update"
  /\ Len(last.sorted) = 4
  /\ last.sorted # last.collisions

====
